---- MODULE Spec2Model ----
(***************************************************************************)
(* A model of pyutilib.misc.timing: the HierarchicalTimer, its tree of     *)
(* _HierarchicalHelper accumulators and the report built by __str__ and    *)
(* _HierarchicalHelper.print.                                              *)
(*                                                                         *)
(* The nested dicts of the source are flattened: an accumulator is named   *)
(* by its path (the sequence of keys that leads to it from the             *)
(* HierarchicalTimer), `helpers' maps each existing path to the fields of  *)
(* its _HierarchicalHelper, and a dict is the sequence of its keys in      *)
(* insertion order (the order Python's dict iterates in).                  *)
(*                                                                         *)
(* time.time() is the variable `clock', read by the calls and advanced by  *)
(* the environment (Tick); it never decreases.  Python is run with         *)
(* assertions enabled (no -O).  Times are whole clock ticks.               *)
(*                                                                         *)
(* Spec is the HierarchicalTimer called through its methods; SpecHelper is *)
(* one _HierarchicalHelper called directly; SpecTicToc is a TicTocTimer,   *)
(* whose _time_source is the same clock.                                   *)
(***************************************************************************)
EXTENDS Integers, Sequences, FiniteSets

\* ------------------------------------------------------------------ bounds
\* The identifiers the callers pass to start_increment / stop_increment.
Names == {"a", "b"}
\* How many calls (start, stop, reset) and clock ticks a behaviour holds;
\* reports are not counted, they change nothing.
MaxOps == 8

\* self.t0 = None
None == -1

VARIABLES
    stack,      \* HierarchicalTimer.stack: the list of identifiers
    timers,     \* HierarchicalTimer.timers: its keys, in insertion order
    helpers,    \* path -> the _HierarchicalHelper at that path
    clock,      \* the value time.time() returns now
    last,       \* the last call: its name, argument, exception, return value
    nops,       \* the calls and ticks so far
    epoch,      \* history: since construction or the last reset
    running,    \* history: the paths started and not stopped since
    helper,     \* a _HierarchicalHelper of its own, called directly
    tictoc,     \* a TicTocTimer: its fields
    thist       \* history of the TicTocTimer's start() and stop() calls

vars == <<stack, timers, helpers, clock, last, nops, epoch, running,
          helper, tictoc, thist>>

\* One more call or tick, while the behaviour may hold one.
Step == nops < MaxOps /\ nops' = nops + 1

\* The history kept for the claims about reset: `calls' counts the starts
\* and stops since construction or the last reset (3 stands for 3 or more),
\* `had' holds the root names whose accumulator had completed a cycle when
\* reset discarded it.
Fresh == [calls |-> 0, had |-> {}]
Called == epoch' = [epoch EXCEPT !.calls = IF @ < 3 THEN @ + 1 ELSE @]

\* ----------------------------------------------------------------- helpers
Range(s) == {s[i] : i \in 1..Len(s)}
Front(s) == SubSeq(s, 1, Len(s) - 1)
Last(s) == s[Len(s)]

\* The outcome of a call: `err' is the exception it raised ("none" when it
\* returned), `s' the string __str__ returned, as a sequence of rows.
Call(op, id, err, s) == [op |-> op, id |-> id, err |-> err, s |-> s]

\* _HierarchicalHelper.__init__
HierarchicalHelper ==
    [total_time |-> 0, t0 |-> None, n_calls |-> 0, timers |-> <<>>]

\* tmp.timers for the object at `path' (<<>> is the HierarchicalTimer itself)
TimersOf(t, h, path) == IF path = <<>> THEN t ELSE h[path].timers

\* The walk of _get_timer: for i in self.stack: tmp = tmp.timers[i].
\* Gives the path of tmp after the loop, or KeyError.
KeyError == <<"KeyError">>
RECURSIVE Walk(_, _, _, _)
Walk(t, h, tmp, rest) ==
    IF rest = <<>> THEN tmp
    ELSE IF Head(rest) \in Range(TimersOf(t, h, tmp))
         THEN Walk(t, h, Append(tmp, Head(rest)), Tail(rest))
         ELSE KeyError

\* A _get_timer that looks the identifier up among the roots, whatever the
\* stack holds.
get_timer_by_name(t, h, stk, identifier, should_exist) ==
    IF identifier \in Range(t)
    THEN [err |-> "none", path |-> <<identifier>>, t |-> t, h |-> h]
    ELSE IF should_exist
    THEN [err |-> "RuntimeError", path |-> <<>>, t |-> t, h |-> h]
    ELSE [err |-> "none", path |-> <<identifier>>, t |-> Append(t, identifier),
          h |-> [p \in DOMAIN h \cup {<<identifier>>} |->
                    IF p = <<identifier>> THEN HierarchicalHelper ELSE h[p]]]

\* A _get_timer that puts a new helper at the path even where one exists.
get_timer_fresh(t, h, stk, identifier, should_exist) ==
    LET tmp == Walk(t, h, <<>>, stk) IN
    IF tmp = KeyError
    THEN [err |-> "KeyError", path |-> <<>>, t |-> t, h |-> h]
    ELSE LET path == Append(tmp, identifier) IN
         IF identifier \in Range(TimersOf(t, h, tmp))
         THEN IF should_exist
              THEN [err |-> "none", path |-> path, t |-> t, h |-> h]
              ELSE [err |-> "none", path |-> path, t |-> t,
                    h |-> [h EXCEPT ![path] =
                             [HierarchicalHelper EXCEPT !.timers = h[path].timers]]]
         ELSE IF should_exist
         THEN [err |-> "RuntimeError", path |-> <<>>, t |-> t, h |-> h]
         ELSE LET h1 == IF tmp = <<>> THEN h
                        ELSE [h EXCEPT ![tmp].timers = Append(@, identifier)]
                  t1 == IF tmp = <<>> THEN Append(t, identifier) ELSE t
              IN [err |-> "none", path |-> path, t |-> t1,
                  h |-> [p \in DOMAIN h1 \cup {path} |->
                            IF p = path THEN HierarchicalHelper ELSE h1[p]]]

\* HierarchicalTimer._get_timer on the tree (t, h) with stack stk: the
\* exception raised, the path of the timer returned, and the tree after it.
get_timer(t, h, stk, identifier, should_exist) ==
    LET tmp == Walk(t, h, <<>>, stk) IN
    IF tmp = KeyError
    THEN [err |-> "KeyError", path |-> <<>>, t |-> t, h |-> h]
    ELSE LET path == Append(tmp, identifier) IN
         IF identifier \in Range(TimersOf(t, h, tmp))
         THEN [err |-> "none", path |-> path, t |-> t, h |-> h]
         ELSE IF should_exist
         THEN [err |-> "RuntimeError", path |-> <<>>, t |-> t, h |-> h]
         ELSE LET h1 == IF tmp = <<>> THEN h
                        ELSE [h EXCEPT ![tmp].timers = Append(@, identifier)]
                  t1 == IF tmp = <<>> THEN Append(t, identifier) ELSE t
              IN [err |-> "none", path |-> path, t |-> t1,
                  h |-> [p \in DOMAIN h1 \cup {path} |->
                            IF p = path THEN HierarchicalHelper ELSE h1[p]]]

\* A start_increment that also clears the time accumulated so far.
helper_start_increment_clears(self, now) ==
    [self EXCEPT !.t0 = now, !.total_time = 0]

\* _HierarchicalHelper.start_increment
helper_start_increment(self, now) == [self EXCEPT !.t0 = now]

\* A stop_increment that forgets to count the call.
helper_stop_increment_uncounted(self, now) ==
    IF self.t0 = None
    THEN [err |-> "TypeError", self |-> self]
    ELSE [err |-> "none",
          self |-> [self EXCEPT !.total_time = @ + (now - self.t0)]]

\* A stop_increment that subtracts the wrong way round.
helper_stop_increment_swapped(self, now) ==
    IF self.t0 = None
    THEN [err |-> "TypeError", self |-> self]
    ELSE [err |-> "none",
          self |-> [self EXCEPT !.total_time = @ + (self.t0 - now),
                                !.n_calls = @ + 1]]

\* _HierarchicalHelper.stop_increment; float - None raises TypeError before
\* anything is assigned.
helper_stop_increment(self, now) ==
    IF self.t0 = None
    THEN [err |-> "TypeError", self |-> self]
    ELSE [err |-> "none",
          self |-> [self EXCEPT !.total_time = @ + (now - self.t0),
                                !.n_calls = @ + 1]]

\* ------------------------------------------------------------------ report
\* A row of the report is the record of what its columns show.  x/y of two
\* numbers raises ZeroDivisionError when y is 0; '{:.2e}' keeps three
\* significant digits and '{:.1f}' one decimal, so a quotient is kept as a
\* whole number of thousandths (an average) or of tenths of a percent.
Round(n, d) == (2 * n + d) \div (2 * d)
\* '{0:>15.2e}'.format(timer.total_time/timer.n_calls)
Average(total_time, n_calls) == Round(1000 * total_time, n_calls)
\* '{0:>15.1f}%'.format(x/self.total_time*100)
Percent(x, total_time) == Round(1000 * x, total_time)

ZeroDivisionError == [err |-> "ZeroDivisionError", s |-> <<>>]

\* _HierarchicalHelper.print on the helper at path `self' of tree h; `indent'
\* counts the 4-space units of the indent string.  printLoop is its for
\* loop from the k-th child on and the 'other' row after it.
RECURSIVE print(_, _, _), printLoop(_, _, _, _, _, _)
\* A print without the len(self.timers) > 0 test.
print_unguarded(h, self, indent) ==
    printLoop(h, self, indent, 1, h[self].total_time, <<>>)
print(h, self, indent) ==
    IF Len(h[self].timers) > 0
    THEN printLoop(h, self, indent, 1, h[self].total_time, <<>>)
    ELSE [err |-> "none", s |-> <<>>]
printLoop(h, self, indent, k, other_time, s) ==
    IF k > Len(h[self].timers)
    THEN IF h[self].total_time = 0 THEN ZeroDivisionError
         ELSE [err |-> "none",
               s |-> Append(s, [indent |-> indent, name |-> "other",
                                total_time |-> other_time,
                                n_calls |-> "N/A", avg |-> "N/A",
                                pct |-> Percent(other_time, h[self].total_time)])]
    ELSE LET name == h[self].timers[k]
             timer == h[Append(self, name)]
         IN
         IF timer.n_calls = 0 \/ h[self].total_time = 0 THEN ZeroDivisionError
         ELSE LET row == [indent |-> indent, name |-> name,
                          total_time |-> timer.total_time,
                          n_calls |-> timer.n_calls,
                          avg |-> Average(timer.total_time, timer.n_calls),
                          pct |-> Percent(timer.total_time, h[self].total_time)]
                  sub == print(h, Append(self, name), indent + 1)
              IN IF sub.err # "none" THEN sub
                 ELSE printLoop(h, self, indent, k + 1,
                                other_time - timer.total_time,
                                (s \o <<row>>) \o sub.s)

\* HierarchicalTimer.__str__ on the tree (t, h), from its k-th root on.
RECURSIVE str(_, _, _, _)
str(t, h, k, s) ==
    IF k > Len(t) THEN [err |-> "none", s |-> s]
    ELSE LET name == t[k]
             timer == h[<<name>>]
         IN
         IF timer.n_calls = 0 THEN ZeroDivisionError
         ELSE LET row == [indent |-> 0, name |-> name,
                          total_time |-> timer.total_time,
                          n_calls |-> timer.n_calls,
                          avg |-> Average(timer.total_time, timer.n_calls)]
                  sub == print(h, <<name>>, 1)
              IN IF sub.err # "none" THEN sub
                 ELSE str(t, h, k + 1, (s \o <<row>>) \o sub.s)

\* ----------------------------------------------------------------- actions
\* The fields of a TicTocTimer before TicTocTimer() has run.
NoTimer == [lastTime |-> None, loadTime |-> None, start_count |-> 0, cumul |-> 0]
\* The history of a TicTocTimer: whether it is built, whether only start()
\* and stop() were called on it, whether a stop() has returned with no
\* start() or tic() since, the start() calls, the sum of the intervals from
\* a start() to the stop() or start() that ends it, and the time of the
\* start() whose interval is open (None when none is).
NoHistory ==
    [built |-> FALSE, pure |-> TRUE, stopped |-> FALSE,
     starts |-> 0, sum |-> 0, since |-> None]

\* Besides the HierarchicalTimer: no history, a helper as __init__ makes it and no
\* TicTocTimer yet.
InitRest ==
    /\ running = {}
    /\ helper = HierarchicalHelper
    /\ tictoc = NoTimer
    /\ thist = NoHistory

\* HierarchicalTimer(), at clock 0
Init ==
    /\ stack = <<>>
    /\ timers = <<>>
    /\ helpers = <<>>
    /\ clock = 0
    /\ last = Call("init", "", "none", <<>>)
    /\ nops = 0
    /\ epoch = Fresh
    /\ InitRest

\* The environment: time passes.
Tick ==
    /\ Step
    /\ clock' = clock + 1
    /\ last' = Call("tick", "", "none", <<>>)
    /\ UNCHANGED <<stack, timers, helpers, epoch>>

\* HierarchicalTimer.start_increment(identifier)
start_increment(identifier) ==
    LET r == get_timer(timers, helpers, stack, identifier, FALSE) IN
    /\ Step
    /\ Called
    /\ IF r.err # "none"
       THEN /\ last' = Call("start", identifier, r.err, <<>>)
            /\ UNCHANGED <<stack, timers, helpers>>
       ELSE /\ timers' = r.t
            /\ helpers' = [r.h EXCEPT ![r.path] = helper_start_increment(@, clock)]
            /\ stack' = Append(stack, identifier)
            /\ last' = Call("start", identifier, "none", <<>>)
    /\ UNCHANGED clock

\* An assert that lets every identifier through.
assert_off(identifier, popped) == TRUE

\* assert identifier == self.stack.pop(), once the pop has returned `popped'
assert_top(identifier, popped) == identifier = popped

\* HierarchicalTimer.stop_increment(identifier).  self.stack.pop() is
\* evaluated inside the assert, before the comparison.
stop_increment(identifier) ==
    /\ Step
    /\ Called
    /\ UNCHANGED <<clock, timers>>
    /\ IF stack = <<>>
       THEN /\ last' = Call("stop", identifier, "IndexError", <<>>)
            /\ UNCHANGED <<stack, helpers>>
       ELSE LET popped == Last(stack)
                stk == Front(stack)
            IN
            /\ stack' = stk
            /\ IF ~assert_top(identifier, popped)
               THEN /\ last' = Call("stop", identifier, "AssertionError", <<>>)
                    /\ UNCHANGED helpers
               ELSE LET r == get_timer(timers, helpers, stk, identifier, TRUE) IN
                    IF r.err # "none"
                    THEN /\ last' = Call("stop", identifier, r.err, <<>>)
                         /\ UNCHANGED helpers
                    ELSE LET q == helper_stop_increment(helpers[r.path], clock) IN
                         /\ helpers' = [helpers EXCEPT ![r.path] = q.self]
                         /\ last' = Call("stop", identifier, q.err, <<>>)

\* A reset that empties the stack and keeps the tree.
reset_stack_only ==
    /\ Step
    /\ stack' = <<>>
    /\ last' = Call("reset", "", "none", <<>>)
    /\ epoch' = [calls |-> 0,
                 had |-> {n \in Range(timers) : helpers[<<n>>].n_calls > 0}]
    /\ UNCHANGED <<clock, timers, helpers>>

\* A reset that empties the tree and keeps the stack.
reset_tree_only ==
    /\ Step
    /\ timers' = <<>>
    /\ helpers' = <<>>
    /\ last' = Call("reset", "", "none", <<>>)
    /\ epoch' = [calls |-> 0,
                 had |-> {n \in Range(timers) : helpers[<<n>>].n_calls > 0}]
    /\ UNCHANGED <<clock, stack>>

\* HierarchicalTimer.reset
reset ==
    /\ Step
    /\ stack' = <<>>
    /\ timers' = <<>>
    /\ helpers' = <<>>
    /\ last' = Call("reset", "", "none", <<>>)
    /\ epoch' = [calls |-> 0,
                 had |-> {n \in Range(timers) : helpers[<<n>>].n_calls > 0}]
    /\ UNCHANGED clock

\* A report that resets the timer once the string is built.
report_and_reset ==
    LET r == str(timers, helpers, 1, <<>>) IN
    /\ last' = Call("report", "", r.err, r.s)
    /\ stack' = <<>>
    /\ timers' = <<>>
    /\ helpers' = <<>>
    /\ UNCHANGED <<clock, nops, epoch>>

\* str(timer): HierarchicalTimer.__str__
report ==
    LET r == str(timers, helpers, 1, <<>>) IN
    /\ last' = Call("report", "", r.err, r.s)
    /\ UNCHANGED <<stack, timers, helpers, clock, nops, epoch>>

\* The history `running': a start that returns adds the path it started, a
\* stop that returns removes the path it stopped, a reset forgets them all.
Track ==
    running' =
        IF last'.op = "start" /\ last'.err = "none" THEN running \cup {stack'}
        ELSE IF last'.op = "stop" /\ last'.err = "none" THEN running \ {stack}
        ELSE IF last'.op = "reset" THEN {}
        ELSE running

\* --------------------------------------------- a _HierarchicalHelper alone
\* helper.start_increment(), called on the object itself; in `running' the
\* lone helper goes by the empty path.
helper_start ==
    /\ Step
    /\ helper' = helper_start_increment(helper, clock)
    /\ running' = {<<>>}
    /\ last' = Call("hstart", "", "none", <<>>)

\* helper.stop_increment(), called on the object itself
helper_stop ==
    LET q == helper_stop_increment(helper, clock) IN
    /\ Step
    /\ helper' = q.self
    /\ running' = IF q.err = "none" THEN {} ELSE running
    /\ last' = Call("hstop", "", q.err, <<>>)

\* ------------------------------------------------------------- TicTocTimer
\* `if x:' on a number or None
Truthy(x) == x # None /\ x # 0

\* A stop() that leaves the reference time in place.
tictoc_stop_keeps(self, now) ==
    IF self.lastTime = None
    THEN [err |-> "RuntimeError", self |-> self, ans |-> 0]
    ELSE [err |-> "none", ans |-> now - self.lastTime,
          self |-> [self EXCEPT !.cumul = @ + (now - self.lastTime)]]

\* TicTocTimer.stop: the TypeError of float - None becomes RuntimeError.
tictoc_stop(self, now) ==
    IF self.lastTime = None
    THEN [err |-> "RuntimeError", self |-> self, ans |-> 0]
    ELSE [err |-> "none", ans |-> now - self.lastTime,
          self |-> [self EXCEPT !.cumul = @ + (now - self.lastTime),
                                !.lastTime = None]]

\* TicTocTimer.start
tictoc_start(self, now) ==
    LET stopped == IF Truthy(self.lastTime) THEN tictoc_stop(self, now).self
                   ELSE self
    IN [stopped EXCEPT !.start_count = @ + 1, !.lastTime = now]

\* TicTocTimer.toc: the fields after it and the value it returns.
tictoc_toc(self, delta, now) ==
    IF self.start_count # 0 \/ self.lastTime = None
    THEN [self |-> self,
          ans |-> self.cumul +
                  (IF Truthy(self.lastTime) THEN now - self.lastTime ELSE 0)]
    ELSE IF delta
    THEN [self |-> [self EXCEPT !.lastTime = now], ans |-> now - self.lastTime]
    ELSE [self |-> self, ans |-> now - self.loadTime]

\* TicTocTimer.tic; `msg' is whether its msg argument is None or truthy.
tictoc_tic(self, msg, now) ==
    LET set == [self EXCEPT !.lastTime = now] IN
    IF msg THEN tictoc_toc(set, FALSE, now).self ELSE set

\* TicTocTimer()
TicTocTimer ==
    /\ ~thist.built
    /\ Step
    /\ tictoc' = [lastTime |-> clock, loadTime |-> clock,
                  start_count |-> 0, cumul |-> 0]
    /\ thist' = [NoHistory EXCEPT !.built = TRUE]
    /\ last' = Call("TicTocTimer", "", "none", <<>>)

tic(msg) ==
    /\ thist.built
    /\ Step
    /\ tictoc' = tictoc_tic(tictoc, msg, clock)
    /\ thist' = [thist EXCEPT !.pure = FALSE, !.stopped = FALSE]
    /\ last' = Call("tic", "", "none", <<>>)

toc(delta) ==
    LET r == tictoc_toc(tictoc, delta, clock) IN
    /\ thist.built
    /\ Step
    /\ tictoc' = r.self
    /\ thist' = [thist EXCEPT !.pure = FALSE]
    /\ last' = Call("toc", "", "none", <<r.ans>>)

stop ==
    LET r == tictoc_stop(tictoc, clock) IN
    /\ thist.built
    /\ Step
    /\ tictoc' = r.self
    /\ thist' = IF r.err # "none" THEN thist
                ELSE [thist EXCEPT
                        !.stopped = TRUE,
                        !.sum = IF thist.since = None THEN @
                                ELSE @ + (clock - thist.since),
                        !.since = None]
    /\ last' = Call("tstop", "", r.err, <<r.ans>>)

start ==
    /\ thist.built
    /\ Step
    /\ tictoc' = tictoc_start(tictoc, clock)
    /\ thist' = [thist EXCEPT
                    !.stopped = FALSE,
                    !.starts = @ + 1,
                    !.sum = IF thist.since = None THEN @
                            ELSE @ + (clock - thist.since),
                    !.since = clock]
    /\ last' = Call("tstart", "", "none", <<>>)

\* ---------------------------------------------------------- specifications
HierarchicalVars == <<stack, timers, helpers, epoch>>

Next ==
    \/ Tick /\ Track /\ UNCHANGED <<helper, tictoc, thist>>
    \/ /\ \E identifier \in Names : start_increment(identifier)
       /\ Track /\ UNCHANGED <<helper, tictoc, thist>>
    \/ /\ \E identifier \in Names : stop_increment(identifier)
       /\ Track /\ UNCHANGED <<helper, tictoc, thist>>
    \/ reset /\ Track /\ UNCHANGED <<helper, tictoc, thist>>
    \/ report /\ Track /\ UNCHANGED <<helper, tictoc, thist>>

Spec == Init /\ [][Next]_vars

NextHelper ==
    \/ Tick /\ UNCHANGED <<running, helper, tictoc, thist>>
    \/ helper_start /\ UNCHANGED <<HierarchicalVars, clock, tictoc, thist>>
    \/ helper_stop /\ UNCHANGED <<HierarchicalVars, clock, tictoc, thist>>

SpecHelper == Init /\ [][NextHelper]_vars

NextTicToc ==
    \/ Tick /\ UNCHANGED <<running, helper, tictoc, thist>>
    \/ TicTocTimer /\ UNCHANGED <<HierarchicalVars, clock, running, helper>>
    \/ /\ \E msg \in BOOLEAN : tic(msg)
       /\ UNCHANGED <<HierarchicalVars, clock, running, helper>>
    \/ /\ \E delta \in BOOLEAN : toc(delta)
       /\ UNCHANGED <<HierarchicalVars, clock, running, helper>>
    \/ stop /\ UNCHANGED <<HierarchicalVars, clock, running, helper>>
    \/ start /\ UNCHANGED <<HierarchicalVars, clock, running, helper>>

SpecTicToc == Init /\ [][NextTicToc]_vars

\* ------------------------------------------------------------------ claims
\* What a step is: the call it makes sets last'.
Started == last'.op = "start" /\ last'.err = "none"
Stopped == last'.op = "stop" /\ last'.err = "none"
Mismatched == last'.op = "stop" /\ last'.err = "AssertionError"
\* The accumulators present before and after the step.
Kept == DOMAIN helpers \cap DOMAIN helpers'

\* C1: a stop(name) on a non-empty stack whose top is not `name' raises the
\* mismatched-timer error (AssertionError), wherever else `name' exists.
C1_MismatchedStopFails ==
    [][(last'.op = "stop" /\ stack # <<>> /\ last'.id # Last(stack))
          => last'.err = "AssertionError"]_vars

\* C1 witness: stop("b") failed on stack <<b, a>> while accumulators named b
\* exist on the open path (b) and as a sibling of the top (b/b).
C1_Witness ==
    /\ last = Call("stop", "b", "AssertionError", <<>>)
    /\ stack = <<"b">>
    /\ {<<"b", "a">>, <<"b", "b">>} \subseteq DOMAIN helpers
    /\ helpers[<<"b", "a">>].n_calls = 0

\* C2: a stop that fails with the mismatched-timer error leaves the stack and
\* every accumulator as they were.
C2_MismatchedStopChangesNothing ==
    [][Mismatched => stack' = stack /\ helpers' = helpers /\ timers' = timers]_vars

\* C3: a successful stop adds exactly 1 to the n_calls of the accumulator at
\* path `stack' (as it was before the call) and changes no other n_calls; a
\* start changes no n_calls and creates accumulators with n_calls 0.
C3_CallCount ==
    [][/\ Stopped =>
            /\ stack \in DOMAIN helpers
            /\ DOMAIN helpers' = DOMAIN helpers
            /\ \A p \in DOMAIN helpers :
                  helpers'[p].n_calls =
                      helpers[p].n_calls + (IF p = stack THEN 1 ELSE 0)
       /\ last'.op = "start" =>
            /\ DOMAIN helpers \subseteq DOMAIN helpers'
            /\ \A p \in DOMAIN helpers' :
                  helpers'[p].n_calls =
                      (IF p \in DOMAIN helpers THEN helpers[p].n_calls ELSE 0)
      ]_vars

\* C3 witness: the spec's scenario with solve = a and setup = b has just
\* ended: a completed 1 cycle and a/b completed 2.
C3_Witness ==
    /\ last = Call("stop", "a", "none", <<>>)
    /\ nops = 6
    /\ stack = <<>>
    /\ DOMAIN helpers = {<<"a">>, <<"a", "b">>}
    /\ helpers[<<"a">>].n_calls = 1
    /\ helpers[<<"a", "b">>].n_calls = 2

\* C4: accumulators are keyed by path.  A successful start(name) starts the
\* accumulator at path stack + [name], a start or stop changes total_time,
\* n_calls and t0 of no accumulator but the one at the path it acts on, and
\* after start a, start b, start a, stop a, stop b, stop a (the only six
\* calls, nops less the ticks, that complete a cycle on each of a, a/b and a/b/a) the two
\* accumulators named a have n_calls 1 each.
ActsOn == IF last'.op = "start" THEN Append(stack, last'.id) ELSE stack
RecursiveDone ==
    /\ nops - clock = 6
    /\ DOMAIN helpers = {<<"a">>, <<"a", "b">>, <<"a", "b", "a">>}
    /\ \A p \in DOMAIN helpers : helpers[p].n_calls >= 1
C4_KeyedByPath ==
    /\ [][/\ Started =>
                /\ stack' = Append(stack, last'.id)
                /\ stack' \in DOMAIN helpers'
                /\ helpers'[stack'].t0 = clock
          /\ (last'.op \in {"start", "stop"}) =>
                \A p \in Kept \ {ActsOn} :
                    /\ helpers'[p].total_time = helpers[p].total_time
                    /\ helpers'[p].n_calls = helpers[p].n_calls
                    /\ helpers'[p].t0 = helpers[p].t0
         ]_vars
    /\ [](RecursiveDone =>
            /\ helpers[<<"a">>].n_calls = 1
            /\ helpers[<<"a", "b", "a">>].n_calls = 1)

\* C4 witness: the recursive scenario has ended with different times on the
\* two accumulators named a.
C4_Witness ==
    /\ RecursiveDone
    /\ stack = <<>>
    /\ helpers[<<"a">>].total_time # helpers[<<"a", "b", "a">>].total_time

\* C5: a start changes no total_time and no n_calls (the accumulator it
\* creates has 0 and 0) and records the clock in t0 of the accumulator it
\* starts; nothing else sets a t0; a successful stop adds clock - t0 to the
\* total_time of the accumulator at path `stack' and changes no other
\* total_time.
C5_AddedAtStop ==
    [][/\ last'.op = "start" =>
            \A p \in DOMAIN helpers' :
               /\ helpers'[p].total_time =
                      (IF p \in DOMAIN helpers THEN helpers[p].total_time ELSE 0)
               /\ helpers'[p].n_calls =
                      (IF p \in DOMAIN helpers THEN helpers[p].n_calls ELSE 0)
       /\ Started => helpers'[stack'].t0 = clock
       /\ \A p \in Kept :
            (helpers'[p].t0 # helpers[p].t0) =>
                (Started /\ p = stack' /\ helpers'[p].t0 = clock)
       /\ Stopped =>
            \A p \in DOMAIN helpers :
               helpers'[p].total_time =
                   helpers[p].total_time +
                       (IF p = stack THEN clock - helpers[p].t0 ELSE 0)
      ]_vars

\* C5 witness: a second cycle of a has just added its interval to a
\* total_time that was not 0.
C5_Witness ==
    /\ last = Call("stop", "a", "none", <<>>)
    /\ <<"a">> \in DOMAIN helpers
    /\ helpers[<<"a">>].n_calls = 2
    /\ helpers[<<"a">>].total_time = 2
    /\ helpers[<<"a">>].t0 = 1
    /\ clock = 2

\* C6: between construction and the next reset no total_time and no n_calls
\* decreases from a state to the next, no accumulator disappears, and both
\* are >= 0 in every state.
C6_Monotonic ==
    /\ [][last'.op # "reset" =>
             \A p \in DOMAIN helpers :
                /\ p \in DOMAIN helpers'
                /\ helpers'[p].total_time >= helpers[p].total_time
                /\ helpers'[p].n_calls >= helpers[p].n_calls]_vars
    /\ [](\A p \in DOMAIN helpers :
             helpers[p].total_time >= 0 /\ helpers[p].n_calls >= 0)

\* C6 witness: a stop has failed and, later, a stop has added time to an
\* accumulator that already had some.
C6_Witness ==
    /\ last.op = "stop" /\ last.err = "none"
    /\ \E p \in DOMAIN helpers :
          helpers[p].n_calls = 1 /\ helpers[p].total_time = 1
    /\ \E p \in DOMAIN helpers :
          helpers[p].n_calls = 0 /\ Len(p) > Len(stack)

\* C7: reset leaves the stack and the tree as __init__ makes them, a report
\* right after a reset returns the empty string, and a start(x); stop(x)
\* that follows a construction or a reset ends with x as the only
\* accumulator, with n_calls 1.
C7_ResetIsFresh ==
    /\ [][/\ last'.op = "reset" =>
                stack' = <<>> /\ timers' = <<>> /\ helpers' = <<>>
          /\ (last.op = "reset" /\ last'.op = "report") =>
                last'.err = "none" /\ last'.s = <<>>
         ]_vars
    /\ []((epoch.calls = 2 /\ last.op = "stop" /\ last.err = "none") =>
            /\ stack = <<>>
            /\ timers = <<last.id>>
            /\ DOMAIN helpers = {<<last.id>>}
            /\ helpers[<<last.id>>].n_calls = 1)

\* C7 witness: a reset discarded an accumulator a that had completed a
\* cycle, and the start(a); stop(a) after it has ended.
C7_Witness ==
    /\ "a" \in epoch.had
    /\ epoch.calls = 2
    /\ last = Call("stop", "a", "none", <<>>)

\* C8: report raises no error, whatever regions are open and whatever
\* accumulator has not completed a cycle yet.
C8_ReportNeverFails == last.op = "report" => last.err = "none"

\* Reading a report back: the row a row hangs under is the nearest row
\* above it that is indented one level less (0 when there is none), and the
\* path of a row is the names from its root row down to it.
ParentRow(s, i) ==
    LET above == {j \in 1..(i - 1) : s[j].indent = s[i].indent - 1} IN
    IF above = {} THEN 0 ELSE CHOOSE j \in above : \A k \in above : k <= j
RECURSIVE RowPath(_, _)
RowPath(s, i) ==
    IF s[i].indent = 0 \/ ParentRow(s, i) = 0 THEN <<s[i].name>>
    ELSE Append(RowPath(s, ParentRow(s, i)), s[i].name)
IsPrefix(p, q) == Len(p) <= Len(q) /\ SubSeq(q, 1, Len(p)) = p
\* The rows of report s at the level of the accumulator at path p: those of
\* its children and its 'other' row.
LevelOf(s, p) ==
    {i \in 1..Len(s) : Len(RowPath(s, i)) = Len(p) + 1 /\ IsPrefix(p, RowPath(s, i))}
HasChildren(h, p) == h[p].timers # <<>>
RECURSIVE SumChildren(_, _, _)
SumChildren(h, p, k) ==
    IF k > Len(h[p].timers) THEN 0
    ELSE h[Append(p, h[p].timers[k])].total_time + SumChildren(h, p, k + 1)

\* C9: where every accumulator has completed a cycle and some accumulator
\* with children has total_time 0, report raises no error and every row of
\* that accumulator's level shows 0.0%.
C9_ZeroParentGivesZeroPercent ==
    (/\ last.op = "report"
     /\ \A p \in DOMAIN helpers : helpers[p].n_calls > 0
     /\ \E p \in DOMAIN helpers :
           HasChildren(helpers, p) /\ helpers[p].total_time = 0)
    => /\ last.err = "none"
       /\ \A p \in DOMAIN helpers :
             (HasChildren(helpers, p) /\ helpers[p].total_time = 0) =>
                 \A i \in LevelOf(last.s, p) : last.s[i].pct = 0

\* C10: in a report that was returned, an accumulator with children has a
\* row for each child and, below the rows of all its descendants, exactly
\* one 'other' row, at its children's indent, whose time is its total_time
\* less the total_time of its direct children; an accumulator without
\* children has no row under it.
Others(s, p) == {i \in 1..Len(s) : RowPath(s, i) = Append(p, "other")}
Under(s, p) ==
    {i \in 1..Len(s) : Len(RowPath(s, i)) > Len(p) /\ IsPrefix(p, RowPath(s, i))}
C10_OtherRow ==
    (last.op = "report" /\ last.err = "none") =>
        \A p \in DOMAIN helpers :
            IF HasChildren(helpers, p)
            THEN /\ \A k \in 1..Len(helpers[p].timers) :
                        \E i \in Under(last.s, p) :
                            RowPath(last.s, i) = Append(p, helpers[p].timers[k])
                 /\ Cardinality(Others(last.s, p)) = 1
                 /\ \A i \in Others(last.s, p) :
                        /\ \A j \in Under(last.s, p) : j <= i
                        /\ last.s[i].indent = Len(p)
                        /\ last.s[i].total_time =
                              helpers[p].total_time - SumChildren(helpers, p, 1)
            ELSE Under(last.s, p) = {}

\* C10 witness: a report was returned for a tree with a grandchild whose
\* time is not 0 and an accumulator whose 'other' time is not 0.
C10_Witness ==
    /\ last.op = "report" /\ last.err = "none"
    /\ \E p \in DOMAIN helpers :
          /\ Len(p) = 3
          /\ helpers[p].total_time > 0
    /\ \E i \in 1..Len(last.s) :
          last.s[i].name = "other" /\ last.s[i].total_time # 0

\* C11: report changes neither the stack nor the tree nor any field of an
\* accumulator.
C11_ReportReadOnly ==
    [][last'.op = "report" =>
          stack' = stack /\ timers' = timers /\ helpers' = helpers]_vars

\* C11 witness: a report was returned while a region was open.
C11_Witness ==
    /\ last.op = "report" /\ last.err = "none"
    /\ stack # <<>>
    /\ last.s # <<>>

\* C12: a TicTocTimer.stop() with no start() or tic() since the last stop()
\* that returned raises RuntimeError and leaves the timer's fields as they
\* were; any other stop() returns.
C12_DoubleStop ==
    [][last'.op = "tstop" =>
          IF thist.stopped
          THEN last'.err = "RuntimeError" /\ tictoc' = tictoc
          ELSE last'.err = "none"]_vars

\* C12 witness: a stop() was refused on a timer that had been started and
\* had counted time.
C12_Witness ==
    /\ last.op = "tstop" /\ last.err = "RuntimeError"
    /\ tictoc.start_count > 0
    /\ tictoc.cumul > 0

\* C13: after every toc() the reference time _lastTime is the clock value
\* the call read.
C13_TocResetsReference == [][last'.op = "toc" => tictoc'.lastTime = clock]_vars

\* C14: a stop(name) on an empty stack raises the mismatched-timer error
\* (AssertionError) and leaves the stack and the tree as they were.
C14_StopOnEmptyStack ==
    [][(last'.op = "stop" /\ stack = <<>>) =>
          /\ last'.err = "AssertionError"
          /\ stack' = <<>> /\ timers' = timers /\ helpers' = helpers]_vars

\* C15: a stop_increment on a helper that is not running (never started, or
\* stopped since its last start) raises an error and leaves total_time and
\* n_calls as they were, and a stop_increment that returns clears t0.
C15_StopWhileIdleFails ==
    [][last'.op = "hstop" =>
          IF <<>> \in running
          THEN last'.err = "none" /\ helper'.t0 = None
          ELSE /\ last'.err # "none"
               /\ helper'.total_time = helper.total_time
               /\ helper'.n_calls = helper.n_calls]_vars

\* C16: a start that reaches an accumulator that is running (started and not
\* stopped since) raises an error and leaves its t0 in place.
C16_StartWhileRunningFails ==
    [][(last'.op = "start" /\ Append(stack, last'.id) \in running) =>
          last'.err # "none" /\ helpers' = helpers]_vars

\* C17: every non-empty prefix of the stack is the path of an accumulator of
\* the tree, and no call raises KeyError (the walk) or RuntimeError ('Could
\* not find timer').
Prefixes(stk) == {SubSeq(stk, 1, k) : k \in 1..Len(stk)}
C17_StackInTree ==
    /\ Prefixes(stack) \subseteq DOMAIN helpers
    /\ last.err \notin {"KeyError", "RuntimeError"}

\* C17 witness: after a reset, two regions are open again and an accumulator
\* that a failed stop took off the stack is still in the tree.
C17_Witness ==
    /\ epoch.had # {}
    /\ Len(stack) = 2
    /\ \E p \in DOMAIN helpers \ Prefixes(stack) : helpers[p].n_calls = 0

\* C18: the accumulators started and not stopped since are exactly those at
\* the non-empty prefixes of the stack.
C18_StackIsOpenPath == running = Prefixes(stack)

\* C19: a start that returns adds the accumulator at stack + [name] when
\* there is none and adds nothing else, keeping total_time and n_calls of
\* every accumulator there was; no other call adds one, and none but reset
\* removes one.
C19_CreatedByStartOnly ==
    [][/\ Started =>
            /\ DOMAIN helpers' = DOMAIN helpers \cup {Append(stack, last'.id)}
            /\ \A p \in DOMAIN helpers :
                  /\ helpers'[p].total_time = helpers[p].total_time
                  /\ helpers'[p].n_calls = helpers[p].n_calls
       /\ (last'.op # "reset") => DOMAIN helpers \subseteq DOMAIN helpers'
       /\ ~Started => DOMAIN helpers' \subseteq DOMAIN helpers
      ]_vars

\* C19 witness: a start has reused an accumulator that had completed a cycle
\* and counted time.
C19_Witness ==
    /\ last.op = "start" /\ last.err = "none"
    /\ helpers[stack].n_calls > 0
    /\ helpers[stack].total_time > 0

\* C20: on a TicTocTimer built at a clock value other than 0 on which only
\* start() and stop() were called, _cumul is the sum of the intervals from
\* each start() to the stop() or start() that ends it and _start_count is
\* the number of start() calls.
C20_CumulIsSumOfIntervals ==
    (thist.built /\ thist.pure /\ tictoc.loadTime > 0) =>
        tictoc.cumul = thist.sum /\ tictoc.start_count = thist.starts
====
